---------------------------- MODULE Spec2Model ----------------------------
(***************************************************************************)
(* fix-cnfs: validation and repair of DIMACS CNF/XOR files.                *)
(*                                                                         *)
(* A text is a sequence of one-character strings.  Offsets into a text are *)
(* 0-based as in the Python source: offset i names the character s[i+1].   *)
(* An optional value (Python's None or a value) is the empty sequence or a *)
(* one-element sequence.                                                   *)
(***************************************************************************)
EXTENDS Integers, Sequences, FiniteSets, TLC

None == <<>>
Some(x) == <<x>>

(***************************************************************************)
(* Characters.                                                             *)
(***************************************************************************)
NL == "\n"
FF == "\f"
SP == " "
TAB == "\t"

DigitChars == <<"0", "1", "2", "3", "4", "5", "6", "7", "8", "9">>

IsDigit(c) == \E d \in 1..10 : DigitChars[d] = c

DigitVal(c) == (CHOOSE d \in 1..10 : DigitChars[d] = c) - 1

\* The characters of the parser's whitespace class [ \t\n].
IsWs(c) == c \in {SP, TAB, NL}

\* The characters str.strip, str.split and the regex class \s take as
\* whitespace: the form feed is one of them, though the grammar's ws is not.
IsSpace(c) == c \in {SP, TAB, NL, FF}

\* The characters at which str.splitlines breaks a text.
IsLineBreak(c) == c \in {NL, FF}

\* sep.join(parts)
RECURSIVE Join(_, _)
Join(sep, parts) ==
    IF parts = <<>> THEN <<>>
    ELSE IF Len(parts) = 1 THEN parts[1]
    ELSE parts[1] \o sep \o Join(sep, Tail(parts))

\* Whether text s holds the characters of lit from offset i on.
StartsAt(s, i, lit) ==
    /\ i + Len(lit) <= Len(s)
    /\ \A k \in 1..Len(lit) : s[i + k] = lit[k]

\* int(): the value of an optional '-' followed by digits.
RECURSIVE NatOf(_, _)
NatOf(ds, acc) ==
    IF ds = <<>> THEN acc ELSE NatOf(Tail(ds), 10 * acc + DigitVal(Head(ds)))

int(tok) == IF Head(tok) = "-" THEN 0 - NatOf(Tail(tok), 0) ELSE NatOf(tok, 0)

abs(n) == IF n < 0 THEN 0 - n ELSE n

\* str() of an integer.
RECURSIVE NatStr(_)
NatStr(n) == IF n < 10 THEN <<DigitChars[n + 1]>>
             ELSE NatStr(n \div 10) \o <<DigitChars[(n % 10) + 1]>>

str(n) == IF n < 0 THEN <<"-">> \o NatStr(0 - n) ELSE NatStr(n)

(***************************************************************************)
(* parsy.  A parser is an object; Run(parser, s, i) is its call on the     *)
(* stream s at index i and gives a Result.  A failure carries the furthest *)
(* offset reached and what was expected there; a success keeps the         *)
(* furthest failure met on the way.                                        *)
(***************************************************************************)
Success(i, v) ==
    [status |-> TRUE, index |-> i, value |-> v, furthest |-> -1, expected |-> {}]

Failure(i, e) ==
    [status |-> FALSE, index |-> -1, value |-> None, furthest |-> i, expected |-> {e}]

\* The "no result yet" that Result.aggregate(None) stands for.
NoResult ==
    [status |-> FALSE, index |-> -1, value |-> None, furthest |-> -2, expected |-> {}]

\* The element of a set of one element: The({e(x) : x \in {v}}) is e(v),
\* with v evaluated once.
The(S) == CHOOSE y \in S : TRUE

\* Result.aggregate
Aggregate(self, other) ==
    The({IF a.furthest > b.furthest THEN a
         ELSE IF a.furthest = b.furthest
              THEN [a EXCEPT !.expected = a.expected \cup b.expected]
              ELSE [a EXCEPT !.furthest = b.furthest, !.expected = b.expected]
         : a \in {self}, b \in {other}})

\* string(lit); name is lit as the error message shows it.
string(lit, name) == [op |-> "string", lit |-> lit, name |-> name]

\* regex(pattern), for the patterns of the grammar.
regex(pattern) == [op |-> "regex", pattern |-> pattern]

\* alt(p, q), p | q
alt(p, q) == [op |-> "alt", p |-> p, q |-> q]

\* seq(p, q), and two successive yields of an @generate parser: the value is
\* the pair of the two values.
seq(p, q) == [op |-> "seq", p |-> p, q |-> q]

\* p.map(f), p.combine(f); f names the function.
map(p, f) == [op |-> "map", p |-> p, f |-> f]

\* p >> q
then(p, q) == map(seq(p, q), "second")

\* p << q, p.skip(q)
skip(p, q) == map(seq(p, q), "first")

\* p.desc(description)
desc(p, description) == [op |-> "desc", p |-> p, description |-> description]

\* p.times(min, max)
times(p, min, max) == [op |-> "times", p |-> p, min |-> min, bounded |-> TRUE, max |-> max]

\* p.times(min, float("inf"))
times_unbounded(p, min) ==
    [op |-> "times", p |-> p, min |-> min, bounded |-> FALSE, max |-> 0]

\* p.many()
many(p) == times_unbounded(p, 0)

\* p.at_least(n)
at_least(p, n) == times_unbounded(p, n)

\* p.optional(): p.times(0, 1).map(lambda v: v[0] if v else None)
optional(p) == map(times(p, 0, 1), "optional")

\* success(value)
success(value) == [op |-> "success", value |-> value]

\* p.sep_by(sep, min=0):
\* p.times(1) + (sep >> p).times(min - 1, float("inf")) | success([])
sep_by(p, sep) ==
    alt(map(seq(times(p, 1, 1), times_unbounded(then(sep, p), -1)), "concat"),
        success(<<>>))

\* eof
eof == [op |-> "eof"]

RECURSIVE WsEnd(_, _)
WsEnd(s, i) == IF i < Len(s) /\ IsWs(s[i + 1]) THEN WsEnd(s, i + 1) ELSE i

RECURSIVE DigitsEnd(_, _)
DigitsEnd(s, i) == IF i < Len(s) /\ IsDigit(s[i + 1]) THEN DigitsEnd(s, i + 1) ELSE i

RECURSIVE LineEnd(_, _)
LineEnd(s, i) == IF i < Len(s) /\ s[i + 1] # NL THEN LineEnd(s, i + 1) ELSE i

\* re.match of a pattern of the grammar at offset i: the offset after the
\* match, or -1.  "$" matches at the end of the text and before its last
\* newline.
RegexEnd(pattern, s, i) ==
    CASE pattern = "[ \\t\\n]+" ->
             IF WsEnd(s, i) > i THEN WsEnd(s, i) ELSE -1
      [] pattern = "-?[0-9]+" ->
             The({IF DigitsEnd(s, d) > d THEN DigitsEnd(s, d) ELSE -1
                  : d \in {IF i < Len(s) /\ s[i + 1] = "-" THEN i + 1 ELSE i}})
      [] pattern = "c[^\\n]*" ->
             IF i < Len(s) /\ s[i + 1] = "c" THEN LineEnd(s, i + 1) ELSE -1
      [] pattern = "$" ->
             IF i >= Len(s) \/ (i = Len(s) - 1 /\ s[i + 1] = NL) THEN i ELSE -1

CnfClause(lits) == [type |-> "CnfClause", literals |-> lits]
XorClause(lits) == [type |-> "XorClause", literals |-> lits]
Header(v, n) == [num_vars |-> v, num_clauses |-> n]
CnfXorFile(h, cls, text) ==
    [header |-> h, clauses |-> cls, original_content |-> text]

\* The functions mapped over values, by name; the value of successive
\* yields p1, p2, ... is the nested pair <<v1, <<v2, ...>>>>.
Apply(f, v) ==
    CASE f = "int" -> int(v)
      [] f = "first" -> v[1]
      [] f = "second" -> v[2]
      [] f = "concat" -> v[1] \o v[2]
      [] f = "optional" -> v
      [] f = "CnfClause" -> CnfClause(v[1])
      [] f = "XorClause" -> XorClause(v[2][1])
      [] f = "Header" -> Header(v[2][1][1], v[2][1][2])
      [] f = "CnfXorFile" -> CnfXorFile(v[2][1], v[2][2][1], None)

RECURSIVE Run(_, _, _)
RECURSIVE times_loop(_, _, _, _, _)

\* The loop of p.times(min, max): values are the values read, result is the
\* loop's result so far.
times_loop(parser, s, i, values, result) ==
    IF parser.bounded /\ Len(values) >= parser.max
    THEN Aggregate(Success(i, values), result)
    ELSE The({IF r.status
              THEN times_loop(parser, s, r.index, Append(values, r.value), r)
              ELSE IF Len(values) >= parser.min THEN Aggregate(Success(i, values), r)
              ELSE r
              : r \in {Aggregate(Run(parser.p, s, i), result)}})

\* parser(stream, index)
Run(parser, s, i) ==
    CASE parser.op = "string" ->
             IF StartsAt(s, i, parser.lit)
             THEN Success(i + Len(parser.lit), parser.lit)
             ELSE Failure(i, parser.name)
      [] parser.op = "regex" ->
             The({IF j >= 0 THEN Success(j, SubSeq(s, i + 1, j))
                  ELSE Failure(i, parser.pattern)
                  : j \in {RegexEnd(parser.pattern, s, i)}})
      [] parser.op = "eof" ->
             IF i >= Len(s) THEN Success(i, None) ELSE Failure(i, "EOF")
      [] parser.op = "success" -> Success(i, parser.value)
      [] parser.op = "alt" ->
             The({IF r.status THEN r ELSE Aggregate(Run(parser.q, s, i), r)
                  : r \in {Run(parser.p, s, i)}})
      [] parser.op = "seq" ->
             The({IF ~r1.status THEN r1
                  ELSE The({IF ~r2.status THEN r2
                            ELSE Aggregate(Success(r2.index, <<r1.value, r2.value>>), r2)
                            : r2 \in {Aggregate(Run(parser.q, s, r1.index), r1)}})
                  : r1 \in {Run(parser.p, s, i)}})
      [] parser.op = "map" ->
             The({IF ~r.status THEN r
                  ELSE Aggregate(Success(r.index, Apply(parser.f, r.value)), r)
                  : r \in {Run(parser.p, s, i)}})
      [] parser.op = "desc" ->
             The({IF r.status THEN r ELSE Failure(i, parser.description)
                  : r \in {Run(parser.p, s, i)}})
      [] parser.op = "times" -> times_loop(parser, s, i, <<>>, NoResult)

(***************************************************************************)
(* The grammar of cnf_xor_parser.py.                                       *)
(***************************************************************************)
ws == desc(regex("[ \\t\\n]+"), "whitespace")

ws_opt == optional(ws)

integer == map(regex("-?[0-9]+"), "int")

line_end == alt(string(<<NL>>, "\\n"), regex("$"))

comment == skip(regex("c[^\\n]*"), line_end)

consumable_item == alt(ws, comment)

separator == at_least(consumable_item, 1)

terminator_parser == desc(map(string(<<"0">>, "0"), "int"), "clause terminator '0'")

\* The yields of cnf_clause_parser and, after its first yield, of
\* xor_clause_parser: the literals, ws_opt, the terminator.
clause_body == seq(sep_by(integer, ws), seq(ws_opt, terminator_parser))

cnf_clause_parser == map(clause_body, "CnfClause")

xor_clause_parser == map(seq(then(string(<<"x">>, "x"), ws), clause_body), "XorClause")

clause_parser_instance == desc(alt(cnf_clause_parser, xor_clause_parser), "CNF or XOR clause")

ignored == many(alt(comment, ws))

p_line ==
    desc(then(then(then(then(string(<<"p">>, "p"), ws), string(<<"c", "n", "f">>, "cnf")), ws),
              seq(skip(integer, ws), skip(integer, ws_opt))),
         "header line 'p cnf <num_vars> <num_clauses>'")

header_parser ==
    map(seq(many(alt(comment, ws)),
            seq(p_line, optional(alt(then(ws_opt, comment), then(ws_opt, line_end))))),
        "Header")

cnf_xor_data_parser ==
    map(seq(many(consumable_item),
            seq(header_parser,
                seq(sep_by(clause_parser_instance, separator),
                    seq(many(consumable_item), eof)))),
        "CnfXorFile")

\* Parser.parse: the parser followed by eof; a failure raises ParseError with
\* the furthest offset and what was expected there.
cnf_xor_file_parser(text) ==
    The({IF e.status
         THEN [ok |-> TRUE, data |-> [e.value EXCEPT !.original_content = Some(text)]]
         ELSE [ok |-> FALSE, index |-> e.furthest, expected |-> e.expected]
         : e \in {Run(skip(cnf_xor_data_parser, eof), text, 0)}})

(***************************************************************************)
(* Python's string methods, as the checks and the Fixer use them.          *)
(***************************************************************************)
\* content.splitlines(keepends): the lines of a text, broken after every
\* line-break character; a text that ends in a line break has no empty last
\* line.  cur is the line being read.
RECURSIVE SplitLinesFrom(_, _, _, _)
SplitLinesFrom(s, k, cur, keepends) ==
    IF k > Len(s) THEN (IF cur = <<>> THEN <<>> ELSE <<cur>>)
    ELSE IF IsLineBreak(s[k])
         THEN <<IF keepends THEN Append(cur, s[k]) ELSE cur>>
              \o SplitLinesFrom(s, k + 1, <<>>, keepends)
         ELSE SplitLinesFrom(s, k + 1, Append(cur, s[k]), keepends)

splitlines(s, keepends) == SplitLinesFrom(s, 1, <<>>, keepends)

RECURSIVE lstrip(_)
lstrip(s) == IF s # <<>> /\ IsSpace(Head(s)) THEN lstrip(Tail(s)) ELSE s

RECURSIVE rstrip(_)
rstrip(s) ==
    IF s # <<>> /\ IsSpace(s[Len(s)]) THEN rstrip(SubSeq(s, 1, Len(s) - 1)) ELSE s

strip(s) == lstrip(rstrip(s))

\* s.split(): the maximal runs of non-whitespace characters.
RECURSIVE SplitFrom(_, _, _)
SplitFrom(s, k, cur) ==
    IF k > Len(s) THEN (IF cur = <<>> THEN <<>> ELSE <<cur>>)
    ELSE IF IsSpace(s[k])
         THEN (IF cur = <<>> THEN <<>> ELSE <<cur>>) \o SplitFrom(s, k + 1, <<>>)
         ELSE SplitFrom(s, k + 1, Append(cur, s[k]))

split(s) == SplitFrom(s, 1, <<>>)

\* p.lstrip('-')
RECURSIVE lstrip_dash(_)
lstrip_dash(s) == IF s # <<>> /\ Head(s) = "-" THEN lstrip_dash(Tail(s)) ELSE s

\* str.isdigit on the model's characters.
isdigit(s) == s # <<>> /\ \A k \in 1..Len(s) : IsDigit(s[k])

RECURSIVE SpaceEnd(_, _)
SpaceEnd(s, i) == IF i < Len(s) /\ IsSpace(s[i + 1]) THEN SpaceEnd(s, i + 1) ELSE i

\* re.compile(r"^\s*p\s+cnf").match(line)
header_pattern_match(line) ==
    LET a == SpaceEnd(line, 0)
        b == SpaceEnd(line, a + 1)
    IN  /\ StartsAt(line, a, <<"p">>)
        /\ b > a + 1
        /\ StartsAt(line, b, <<"c", "n", "f">>)

(***************************************************************************)
(* cnf_xor_parser._get_line_col_from_index                                 *)
(***************************************************************************)
RECURSIVE LineColLoop(_, _, _, _)
LineColLoop(lines, index, current_index, line_num) ==
    IF lines = <<>> THEN <<line_num, 1>>
    ELSE IF current_index + Len(Head(lines)) > index
         THEN <<line_num, index - current_index + 1>>
         ELSE LineColLoop(Tail(lines), index, current_index + Len(Head(lines)),
                          line_num + 1)

get_line_col_from_index(text, index) ==
    LineColLoop(splitlines(text, TRUE), index, 0, 1)

(***************************************************************************)
(* checks.py.  A failure is its class (kind), its message (the values the  *)
(* message is formatted from) and its optional line and column.  A check   *)
(* returns Success or Failure(failure).                                    *)
(***************************************************************************)
ValidationFailure(kind, message, line, col) ==
    [kind |-> kind, message |-> message, line |-> line, col |-> col]

CheckOk == [ok |-> TRUE]
CheckFailure(f) == [ok |-> FALSE, failure |-> f]

check_empty_file(text) ==
    IF strip(text) = <<>>
    THEN CheckFailure(ValidationFailure("EmptyFileFailure",
                                        [text |-> "File is empty"], None, None))
    ELSE CheckOk

\* The 1-based numbers of the lines from k on that the header pattern
\* matches, in order.
RECURSIVE HeaderLineNumsFrom(_, _)
HeaderLineNumsFrom(lines, k) ==
    IF k > Len(lines) THEN <<>>
    ELSE (IF header_pattern_match(lines[k]) THEN <<k>> ELSE <<>>)
         \o HeaderLineNumsFrom(lines, k + 1)

HeaderLineNums(lines) == HeaderLineNumsFrom(lines, 1)

check_duplicate_headers(text) ==
    LET header_lines == HeaderLineNums(splitlines(text, FALSE))
    IN  IF Len(header_lines) > 1
        THEN CheckFailure(ValidationFailure("DuplicateHeaderFailure",
                 [first_line_num |-> Head(header_lines),
                  duplicate_line_nums |-> Tail(header_lines)], None, None))
        ELSE CheckOk

check_clause_count(parsed) ==
    IF Len(parsed.clauses) # parsed.header.num_clauses
    THEN CheckFailure(ValidationFailure("ClauseCountMismatchFailure",
             [declared |-> parsed.header.num_clauses,
              found |-> Len(parsed.clauses)], None, None))
    ELSE CheckOk

\* The scan of check_literals_validity from literal lit_idx of clause
\* clause_idx on (both 1-based).
RECURSIVE LiteralsScan(_, _, _)
LiteralsScan(parsed, clause_idx, lit_idx) ==
    IF clause_idx > Len(parsed.clauses) THEN CheckOk
    ELSE LET literals == parsed.clauses[clause_idx].literals
         IN  IF lit_idx > Len(literals) THEN LiteralsScan(parsed, clause_idx + 1, 1)
             ELSE IF literals[lit_idx] = 0
                  THEN CheckFailure(ValidationFailure("InvalidLiteralFailure",
                           [clause |-> clause_idx, literal |-> lit_idx], None, None))
             ELSE IF abs(literals[lit_idx]) > parsed.header.num_vars
                  THEN CheckFailure(ValidationFailure("VariableOutOfRangeFailure",
                           [clause |-> clause_idx, literal |-> lit_idx,
                            variable |-> abs(literals[lit_idx]),
                            declared |-> parsed.header.num_vars], None, None))
             ELSE LiteralsScan(parsed, clause_idx, lit_idx + 1)

\* A variant of check_literals_validity whose range test is off by one
\* (abs(literal) > num_vars + 1).
check_literals_validity_off_by_one(parsed) ==
    LiteralsScan([parsed EXCEPT !.header.num_vars = @ + 1], 1, 1)

check_literals_validity(parsed) == LiteralsScan(parsed, 1, 1)

\* The scan of check_cnf_tautologies from literal k of clause clause_idx on,
\* seen being the literals of the clause read so far.
RECURSIVE TautologyScan(_, _, _, _)
TautologyScan(parsed, clause_idx, k, seen) ==
    IF clause_idx > Len(parsed.clauses) THEN CheckOk
    ELSE LET clause_data == parsed.clauses[clause_idx]
         IN  IF clause_data.type # "CnfClause" \/ k > Len(clause_data.literals)
             THEN TautologyScan(parsed, clause_idx + 1, 1, {})
             ELSE IF (0 - clause_data.literals[k]) \in seen
                  THEN CheckFailure(ValidationFailure("TautologyFailure",
                           [clause |-> clause_idx,
                            variable |-> abs(clause_data.literals[k])], None, None))
             ELSE TautologyScan(parsed, clause_idx, k + 1,
                                seen \cup {clause_data.literals[k]})

\* A variant of check_cnf_tautologies without the isinstance test of line
\* 105: XOR clauses are scanned like CNF clauses.
check_cnf_tautologies_any_clause(parsed) ==
    TautologyScan([parsed EXCEPT !.clauses = [c \in DOMAIN @ |-> CnfClause(@[c].literals)]],
                  1, 1, {})

check_cnf_tautologies(parsed) == TautologyScan(parsed, 1, 1, {})

(***************************************************************************)
(* fixer.py.  A Fixer is its line buffer, its max_vars and the ParsedFile  *)
(* it holds; raised says that a repair raised an exception (int() of a     *)
(* token with more than one leading '-').                                  *)
(***************************************************************************)
\* Fixer.__init__
Fixer(parsed, fails) ==
    [parsed_data |-> parsed,
     failures |-> fails,
     lines |-> IF parsed.original_content # None /\ parsed.original_content[1] # <<>>
               THEN splitlines(parsed.original_content[1], FALSE)
               ELSE <<>>,
     max_vars |-> parsed.header.num_vars,
     raised |-> FALSE]

\* "terminator" in msg: the only expected item that holds the word is the
\* description of terminator_parser.
MentionsTerminator(message) == "clause terminator '0'" \in message.expected

LineIndexOk(fx, failure) ==
    /\ failure.line # None
    /\ 0 <= failure.line[1] - 1
    /\ failure.line[1] - 1 < Len(fx.lines)

\* A variant of fix_missing_zero that appends " 0" without rstrip().
fix_missing_zero_unstripped(fx, failure) ==
    IF LineIndexOk(fx, failure)
    THEN [fx EXCEPT !.lines[failure.line[1]] = @ \o <<SP, "0">>]
    ELSE fx

fix_missing_zero(fx, failure) ==
    IF LineIndexOk(fx, failure)
    THEN [fx EXCEPT !.lines[failure.line[1]] = rstrip(@) \o <<SP, "0">>]
    ELSE fx

\* The test of the list comprehension of _fix_invalid_literals on one part.
IsValidPart(part, max_vars) ==
    isdigit(lstrip_dash(part)) /\ abs(int(part)) <= max_vars

\* int(part) raises ValueError on a part with two or more leading '-'.
IntRaises(part) ==
    isdigit(lstrip_dash(part)) /\ Len(part) - Len(lstrip_dash(part)) > 1

fix_invalid_literals(fx, failure) ==
    IF ~LineIndexOk(fx, failure) THEN fx
    ELSE LET parts == split(strip(fx.lines[failure.line[1]]))
             valid_parts == SelectSeq(parts, LAMBDA part : IsValidPart(part, fx.max_vars))
             terminated == IF valid_parts # <<>> /\ valid_parts[Len(valid_parts)] # <<"0">>
                           THEN Append(valid_parts, <<"0">>)
                           ELSE valid_parts
         IN  IF \E k \in 1..Len(parts) : IntRaises(parts[k])
             THEN [fx EXCEPT !.raised = TRUE]
             ELSE [fx EXCEPT !.lines[failure.line[1]] = Join(<<SP>>, terminated)]

\* The list comprehension of _fix_duplicate_header from line k on: every
\* header line but the first gets the comment prefix.
RECURSIVE new_lines(_, _, _)
new_lines(lines, header_lines, k) ==
    IF k > Len(lines) THEN <<>>
    ELSE <<IF \E d \in 2..Len(header_lines) : header_lines[d] = k
           THEN <<"c", SP>> \o lines[k]
           ELSE lines[k]>> \o new_lines(lines, header_lines, k + 1)

\* A variant of fix_duplicate_header that rewrites the buffer and keeps the
\* ParsedFile and max_vars it had.
fix_duplicate_header_stale(fx, failure) ==
    [fx EXCEPT !.lines = new_lines(fx.lines, HeaderLineNums(fx.lines), 1)]

fix_duplicate_header(fx, failure) ==
    The({The({IF reparsed.ok
              THEN [fx EXCEPT !.lines = commented,
                              !.parsed_data = reparsed.data,
                              !.max_vars = reparsed.data.header.num_vars]
              ELSE [fx EXCEPT !.lines = commented]
              : reparsed \in {cnf_xor_file_parser(Join(<<NL>>, commented))}})
         : commented \in {new_lines(fx.lines, HeaderLineNums(fx.lines), 1)}})

\* One turn of the loop of Fixer._apply_fixes: the match statement.
apply_fix(fx, failure) ==
    IF failure.kind = "ParseFailure" /\ MentionsTerminator(failure.message)
    THEN fix_missing_zero(fx, failure)
    ELSE IF failure.kind = "InvalidLiteralFailure"
    THEN fix_invalid_literals(fx, failure)
    ELSE IF failure.kind = "DuplicateHeaderFailure"
    THEN fix_duplicate_header(fx, failure)
    ELSE fx

\* The loop of Fixer._apply_fixes from failure k on; an exception ends it.
RECURSIVE apply_fixes(_, _)
apply_fixes(fx, k) ==
    IF k > Len(fx.failures) \/ fx.raised THEN fx
    ELSE apply_fixes(apply_fix(fx, fx.failures[k]), k + 1)

\* A variant of IsFixableErrorType that takes every class as fixable.
IsAnyErrorType(failure) ==
    failure.kind \in {"ParseFailure", "InvalidLiteralFailure", "DuplicateHeaderFailure",
                      "VariableOutOfRangeFailure", "ClauseCountMismatchFailure",
                      "TautologyFailure", "EmptyFileFailure"}

\* The isinstance test of get_fixed_content.
IsFixableErrorType(failure) ==
    failure.kind \in {"ParseFailure", "InvalidLiteralFailure", "DuplicateHeaderFailure"}

fixable_error_types(fails) == SelectSeq(fails, IsFixableErrorType)

\* Fixer.get_fixed_content: the Fixer after the call and what it returns
\* (None, or the text; returned is not read when raised is set).
get_fixed_content(fx) ==
    IF fixable_error_types(fx.failures) = <<>>
    THEN [fixer |-> fx, returned |-> None]
    ELSE The({[fixer |-> done, returned |-> Some(Join(<<NL>>, done.lines))]
              : done \in {apply_fixes(fx, 1)}})

(***************************************************************************)
(* validator.py: validate_and_fix_cnf_file and _run_checks.                *)
(***************************************************************************)
\* Python's recursion limit, in frames of _run_checks.
RecursionLimit == 3

\* The longest text read, in lines.
MaxLines == 3

HeaderLine(v, n) == <<"p", SP, "c", "n", "f", SP>> \o str(v) \o <<SP>> \o str(n)

RECURSIVE RenderLiterals(_)
RenderLiterals(lits) ==
    IF lits = <<>> THEN <<>> ELSE str(Head(lits)) \o <<SP>> \o RenderLiterals(Tail(lits))

\* A clause as DIMACS writes it: the marker of an XOR clause, the literals,
\* the terminating 0.
ClauseLine(clause) ==
    (IF clause.type = "XorClause" THEN <<"x", SP>> ELSE <<>>)
    \o RenderLiterals(clause.literals) \o <<"0">>

RECURSIVE ClauseLines(_)
ClauseLines(cls) ==
    IF cls = <<>> THEN <<>> ELSE <<ClauseLine(Head(cls))>> \o ClauseLines(Tail(cls))

\* A file as DIMACS writes it: the header line, then one line per clause.
FileText(h, cls) ==
    Join(<<NL>>, <<HeaderLine(h.num_vars, h.num_clauses)>> \o ClauseLines(cls))

\* The clauses of the files read.
InputClauses ==
    {CnfClause(<<1, 2>>), XorClause(<<1, 2>>), XorClause(<<>>)}

\* The headers of the files read.
InputHeaders == {Header(0, 0), Header(2, 1), Header(-1, 0)}

\* The lines the texts read are made of.
InputLines ==
    {HeaderLine(h.num_vars, h.num_clauses) : h \in InputHeaders}
    \cup {ClauseLine(c) : c \in InputClauses}
    \cup {<<>>, <<"c">>, <<SP, "0">>,
          <<"c", FF>> \o HeaderLine(0, 0)}

RECURSIVE SeqsUpTo(_, _)
SeqsUpTo(S, n) ==
    IF n = 0 THEN {<<>>}
    ELSE LET shorter == SeqsUpTo(S, n - 1)
         IN  shorter \cup {Append(q, x) : q \in shorter, x \in S}

InputTexts == {Join(<<NL>>, lines) : lines \in SeqsUpTo(InputLines, MaxLines)}

VARIABLES
    content,                \* the text read from the file
    fix,                    \* output_dir != None
    pc,                     \* the place reached
    depth,                  \* the frames of _run_checks entered
    duplicate_header_check, \* _run_checks' local: the duplicate-header result
    parsed_data,            \* _run_checks' local: the ParsedFile
    validation_checks,      \* _run_checks' local: the results of checks 3-5
    failures,               \* _run_checks' local: the failures collected
    fixer,                  \* the Fixer constructed
    next_failure,           \* the place of Fixer._apply_fixes in its loop
    result                  \* what the call returned

vars == <<content, fix, pc, depth, duplicate_header_check, parsed_data,
          validation_checks, failures, fixer, next_failure, result>>

Ok == [status |-> "Ok"]
Fixed(text) == [status |-> "Fixed", content |-> text]
Err(f) == [status |-> "Err", failure |-> f]

\* What the except clause of validate_and_fix_cnf_file returns.
UnexpectedError(name) ==
    Err(ValidationFailure("ValidationFailure", [error |-> name], None, None))

Init ==
    /\ content \in InputTexts
    /\ fix \in BOOLEAN
    /\ pc = "check_empty_file"
    /\ depth = 0
    /\ duplicate_header_check = None
    /\ parsed_data = None
    /\ validation_checks = <<>>
    /\ failures = <<>>
    /\ fixer = None
    /\ next_failure = 0
    /\ result = None

\* validate_and_fix_cnf_file: check_empty_file(...).bind(_run_checks)
CheckEmptyFile ==
    /\ pc = "check_empty_file"
    /\ \E r \in {check_empty_file(content)} :
           IF r.ok
           THEN /\ pc' = "check_duplicate_headers"
                /\ depth' = 1
                /\ result' = result
           ELSE /\ pc' = "done"
                /\ depth' = depth
                /\ result' = Some(Err(r.failure))
    /\ UNCHANGED <<content, fix, duplicate_header_check, parsed_data,
                   validation_checks, failures, fixer, next_failure>>

\* A variant of CheckDuplicateHeaders without the early return of line 35.
CheckDuplicateHeadersThenParse ==
    /\ pc = "check_duplicate_headers"
    /\ duplicate_header_check' = Some(check_duplicate_headers(content))
    /\ pc' = "parse"
    /\ UNCHANGED <<content, fix, depth, parsed_data, validation_checks, failures,
                   fixer, next_failure, result>>

\* _run_checks, lines 31-35
CheckDuplicateHeaders ==
    /\ pc = "check_duplicate_headers"
    /\ \E r \in {check_duplicate_headers(content)} :
           /\ duplicate_header_check' = Some(r)
           /\ IF ~r.ok /\ fix
              THEN pc' = "done" /\ result' = Some(Err(r.failure))
              ELSE pc' = "parse" /\ result' = result
    /\ UNCHANGED <<content, fix, depth, parsed_data, validation_checks, failures,
                   fixer, next_failure>>

\* The ParseFailure of the except clause of _run_checks.
ParseFailureAt(text, e) ==
    LET lc == get_line_col_from_index(text, e.index)
    IN  ValidationFailure("ParseFailure",
                          [line |-> lc[1], col |-> lc[2], expected |-> e.expected],
                          Some(lc[1]), Some(lc[2]))

\* _run_checks, line 37 and lines 60-65
Parse ==
    /\ pc = "parse"
    /\ \E r \in {cnf_xor_file_parser(content)} :
           IF r.ok
           THEN /\ parsed_data' = Some(r.data)
                /\ pc' = "validation_checks"
                /\ result' = result
           ELSE /\ parsed_data' = parsed_data
                /\ pc' = "done"
                /\ result' = Some(Err(ParseFailureAt(content, r)))
    /\ UNCHANGED <<content, fix, depth, duplicate_header_check, validation_checks,
                   failures, fixer, next_failure>>

\* A variant of CollectFailures that stops at the first failing check.
CollectFirstFailure(checks) ==
    IF checks = <<>> THEN <<>>
    ELSE IF Head(checks).ok THEN <<>> ELSE <<Head(checks).failure>>

\* [r.failure() for r in validation_checks if isinstance(r, Failure)]
RECURSIVE CollectFailures(_)
CollectFailures(checks) ==
    IF checks = <<>> THEN <<>>
    ELSE (IF Head(checks).ok THEN <<>> ELSE <<Head(checks).failure>>)
         \o CollectFailures(Tail(checks))

\* _run_checks, lines 39-45
RunValidationChecks ==
    /\ pc = "validation_checks"
    /\ validation_checks' = <<check_clause_count(parsed_data[1]),
                              check_literals_validity(parsed_data[1]),
                              check_cnf_tautologies(parsed_data[1])>>
    /\ failures' = CollectFailures(validation_checks')
    /\ pc' = "decide"
    /\ UNCHANGED <<content, fix, depth, duplicate_header_check, parsed_data, fixer,
                   next_failure, result>>

DuplicatePending == duplicate_header_check # None /\ ~duplicate_header_check[1].ok

\* _run_checks, lines 47 and 51
ReturnSuccess ==
    /\ pc = "decide"
    /\ failures = <<>>
    /\ ~DuplicatePending
    /\ pc' = "done"
    /\ result' = Some(Ok)
    /\ UNCHANGED <<content, fix, depth, duplicate_header_check, parsed_data,
                   validation_checks, failures, fixer, next_failure>>

\* _run_checks, lines 47-50: the call of _run_checks with the same arguments
\* enters a new frame, whose locals are not yet set.
Rerun ==
    /\ pc = "decide"
    /\ failures = <<>>
    /\ DuplicatePending
    /\ depth < RecursionLimit
    /\ depth' = depth + 1
    /\ pc' = "check_duplicate_headers"
    /\ duplicate_header_check' = None
    /\ parsed_data' = None
    /\ validation_checks' = <<>>
    /\ UNCHANGED <<content, fix, failures, fixer, next_failure, result>>

\* The same call with no frame left: RecursionError, which no frame of
\* _run_checks catches and validate_and_fix_cnf_file turns into a failure.
RerunOverflow ==
    /\ pc = "decide"
    /\ failures = <<>>
    /\ DuplicatePending
    /\ depth >= RecursionLimit
    /\ pc' = "done"
    /\ result' = Some(UnexpectedError("RecursionError"))
    /\ UNCHANGED <<content, fix, depth, duplicate_header_check, parsed_data,
                   validation_checks, failures, fixer, next_failure>>

\* if fixed_content := ...: a returned empty text counts as nothing.
Truthy(returned) == returned # None /\ returned[1] # <<>>

\* _run_checks, lines 53-58 with fixing enabled: the whole call of the Fixer.
RunFixer ==
    /\ pc = "decide"
    /\ failures # <<>>
    /\ fix
    /\ \E got \in {get_fixed_content(Fixer(parsed_data[1], failures))} :
           /\ fixer' = Some(got.fixer)
           /\ result' = Some(IF got.fixer.raised THEN UnexpectedError("ValueError")
                             ELSE IF Truthy(got.returned) THEN Fixed(got.returned[1])
                             ELSE Err(failures[1]))
    /\ pc' = "done"
    /\ UNCHANGED <<content, fix, depth, duplicate_header_check, parsed_data,
                   validation_checks, failures, next_failure>>

\* _run_checks, lines 53 and 58 with fixing disabled
ReturnFirstFailure ==
    /\ pc = "decide"
    /\ failures # <<>>
    /\ ~fix
    /\ pc' = "done"
    /\ result' = Some(Err(failures[1]))
    /\ UNCHANGED <<content, fix, depth, duplicate_header_check, parsed_data,
                   validation_checks, failures, fixer, next_failure>>

Next ==
    \/ CheckEmptyFile
    \/ CheckDuplicateHeaders
    \/ Parse
    \/ RunValidationChecks
    \/ ReturnSuccess
    \/ Rerun
    \/ RerunOverflow
    \/ RunFixer
    \/ ReturnFirstFailure

Spec == Init /\ [][Next]_vars

(***************************************************************************)
(* checks.py as a unit: the three checks of _run_checks, lines 39-58, on   *)
(* any ParsedFile, whatever text it was read from.                         *)
(***************************************************************************)
\* The longest clause list checked.
MaxClauses == 2

\* The literal lists of the clauses checked.
CheckLiterals ==
    {<<>>, <<0>>, <<1>>, <<1, -1>>, <<-1, 3>>, <<2, 0>>, <<3, 1>>, <<0, 0>>,
     <<1, 2, -2, -1>>}

CheckClauses == {CnfClause(l) : l \in CheckLiterals} \cup {XorClause(l) : l \in CheckLiterals}

CheckHeaders == {Header(v, n) : v \in {-1, 0, 1, 2}, n \in {0, 2}}

InitChecks ==
    /\ fix \in BOOLEAN
    /\ \E h \in CheckHeaders, cls \in SeqsUpTo(CheckClauses, MaxClauses) :
           /\ content = FileText(h, cls)
           /\ parsed_data = Some(CnfXorFile(h, cls, Some(content)))
    /\ pc = "validation_checks"
    /\ depth = 1
    /\ duplicate_header_check = Some(CheckOk)
    /\ validation_checks = <<>>
    /\ failures = <<>>
    /\ fixer = None
    /\ next_failure = 0
    /\ result = None

NextChecks ==
    \/ RunValidationChecks
    \/ ReturnSuccess
    \/ RunFixer
    \/ ReturnFirstFailure

SpecChecks == InitChecks /\ [][NextChecks]_vars

(***************************************************************************)
(* fixer.py as a unit: a Fixer made of any ParsedFile and any list of      *)
(* failures, its loop taken one failure at a time.  result is what         *)
(* get_fixed_content returned.                                             *)
(***************************************************************************)
\* The longest text held, in lines.
MaxFixLines == 2

\* The longest list of failures given.
MaxFailures == 2

\* The lines of the texts held.
FixerLines ==
    {HeaderLine(3, 1), HeaderLine(1, 0),
     <<"1", SP, "5", SP, "-", "2", SP, "0">>,
     <<"1", SP, "2", SP, "-", "3", SP>>,
     <<"1", SP, "-", "-", "2", SP, "0">>,
     <<"x", SP, "1", SP, "5", SP, "0">>}

FixerHeaders == {Header(3, 1), Header(1, 0)}

TerminatorExpected(l) ==
    ValidationFailure("ParseFailure",
                      [line |-> l, col |-> 1, expected |-> {"clause terminator '0'"}],
                      Some(l), Some(1))

\* The failures given: of every class, with and without a line.
FixerFailures ==
    {TerminatorExpected(1), TerminatorExpected(2),
     ValidationFailure("ParseFailure", [line |-> 1, col |-> 1, expected |-> {"EOF"}],
                       Some(1), Some(1)),
     ValidationFailure("InvalidLiteralFailure", [clause |-> 1, literal |-> 2], None, None),
     ValidationFailure("InvalidLiteralFailure", [clause |-> 1, literal |-> 2], Some(1), None),
     ValidationFailure("InvalidLiteralFailure", [clause |-> 1, literal |-> 2], Some(2), None),
     ValidationFailure("VariableOutOfRangeFailure",
                       [clause |-> 1, literal |-> 2, variable |-> 5, declared |-> 3],
                       Some(2), None),
     ValidationFailure("DuplicateHeaderFailure",
                       [first_line_num |-> 1, duplicate_line_nums |-> <<2>>], None, None),
     ValidationFailure("ClauseCountMismatchFailure", [declared |-> 1, found |-> 0],
                       None, None),
     ValidationFailure("TautologyFailure", [clause |-> 1, variable |-> 1], None, None),
     ValidationFailure("EmptyFileFailure", [text |-> "File is empty"], None, None)}

InitFixer ==
    /\ content \in {Join(<<NL>>, lines) : lines \in SeqsUpTo(FixerLines, MaxFixLines)}
    /\ fix = TRUE
    /\ pc = "fixer_init"
    /\ depth = 1
    /\ duplicate_header_check = Some(CheckOk)
    /\ parsed_data \in {Some(CnfXorFile(h, <<>>, Some(content))) : h \in FixerHeaders}
    /\ validation_checks = <<>>
    /\ failures \in SeqsUpTo(FixerFailures, MaxFailures)
    /\ fixer = None
    /\ next_failure = 0
    /\ result = None

\* Fixer.__init__
FixerInit ==
    /\ pc = "fixer_init"
    /\ fixer' = Some(Fixer(parsed_data[1], failures))
    /\ pc' = "get_fixed_content"
    /\ UNCHANGED <<content, fix, depth, duplicate_header_check, parsed_data,
                   validation_checks, failures, next_failure, result>>

\* Fixer.get_fixed_content, lines 88-95: return None, or enter _apply_fixes.
GetFixedContent ==
    /\ pc = "get_fixed_content"
    /\ IF fixable_error_types(fixer[1].failures) = <<>>
       THEN pc' = "done" /\ result' = Some(None) /\ next_failure' = next_failure
       ELSE pc' = "apply_fixes" /\ result' = result /\ next_failure' = 1
    /\ UNCHANGED <<content, fix, depth, duplicate_header_check, parsed_data,
                   validation_checks, failures, fixer>>

\* One turn of the loop of Fixer._apply_fixes.
ApplyFix ==
    /\ pc = "apply_fixes"
    /\ ~fixer[1].raised
    /\ next_failure <= Len(fixer[1].failures)
    /\ fixer' = Some(apply_fix(fixer[1], fixer[1].failures[next_failure]))
    /\ next_failure' = next_failure + 1
    /\ UNCHANGED <<content, fix, pc, depth, duplicate_header_check, parsed_data,
                   validation_checks, failures, result>>

\* The ValueError of int() leaves _apply_fixes and get_fixed_content.
FixerRaise ==
    /\ pc = "apply_fixes"
    /\ fixer[1].raised
    /\ pc' = "raised"
    /\ UNCHANGED <<content, fix, depth, duplicate_header_check, parsed_data,
                   validation_checks, failures, fixer, next_failure, result>>

\* Fixer.get_fixed_content, line 96
FixerReturn ==
    /\ pc = "apply_fixes"
    /\ ~fixer[1].raised
    /\ next_failure > Len(fixer[1].failures)
    /\ result' = Some(Some(Join(<<NL>>, fixer[1].lines)))
    /\ pc' = "done"
    /\ UNCHANGED <<content, fix, depth, duplicate_header_check, parsed_data,
                   validation_checks, failures, fixer, next_failure>>

NextFixer ==
    \/ FixerInit
    \/ GetFixedContent
    \/ ApplyFix
    \/ FixerRaise
    \/ FixerReturn

SpecFixer == InitFixer /\ [][NextFixer]_vars

(***************************************************************************)
(* Properties.                                                             *)
(***************************************************************************)
\* The numbers of the lines of a text that the header pattern matches.
HeaderLineSet(text) ==
    {k \in 1..Len(splitlines(text, FALSE)) :
        header_pattern_match(splitlines(text, FALSE)[k])}

Min(S) == CHOOSE x \in S : \A y \in S : x <= y

\* listing holds the numbers of S, each once, in increasing order.
IsIncreasingListing(listing, S) ==
    /\ Len(listing) = Cardinality(S)
    /\ {listing[k] : k \in 1..Len(listing)} = S
    /\ \A j, k \in 1..Len(listing) : j < k => listing[j] < listing[k]

\* C1: a text made of a valid header and of clauses written as an optional
\* 'x', non-zero integers and a terminating 0 parses, and the ParsedFile
\* holds these clauses in order, XOR for a clause that starts with 'x' and
\* CNF otherwise, with the integers before the terminator as literals.
C1_ParseReturnsTheClauses ==
    \A h \in InputHeaders, cls \in SeqsUpTo(InputClauses, MaxLines - 1) :
        (/\ content = FileText(h, cls)
         /\ pc \in {"validation_checks", "decide", "done"})
        => /\ parsed_data # None
           /\ parsed_data[1].header = h
           /\ parsed_data[1].clauses = cls

\* The failure of the earliest stage that fails on a text, in the order
\* empty-file, duplicate-header, parse, clause-count, literal-validity,
\* tautology.
EarliestFailure(text) ==
    IF ~check_empty_file(text).ok THEN check_empty_file(text).failure
    ELSE IF ~check_duplicate_headers(text).ok THEN check_duplicate_headers(text).failure
    ELSE LET r == cnf_xor_file_parser(text)
         IN  IF ~r.ok THEN ParseFailureAt(text, r)
             ELSE Head(CollectFailures(<<check_clause_count(r.data),
                                         check_literals_validity(r.data),
                                         check_cnf_tautologies(r.data)>>))

\* C2: a validation that ends in a failure reports the failure of the
\* earliest failing stage, whatever the fix flag; a non-empty text with two
\* or more header lines is reported as DuplicateHeader, its message naming
\* the first header line and every duplicate line.
C2_EarliestStageReported ==
    (pc = "done" /\ result[1].status = "Err")
    => /\ result[1].failure = EarliestFailure(content)
       /\ (strip(content) # <<>> /\ Cardinality(HeaderLineSet(content)) >= 2)
          => /\ result[1].failure.kind = "DuplicateHeaderFailure"
             /\ result[1].failure.message.first_line_num = Min(HeaderLineSet(content))

\* C3: every validation ends in one outcome, Ok, Fixed or Err with a failure
\* of the validation; the re-run from the duplicate-header check does not
\* come back to the place where it was taken, so it is not repeated until
\* the call stack is used up.
C3_RerunIsNotRepeated ==
    /\ ~(pc = "decide" /\ failures = <<>> /\ DuplicatePending /\ depth >= 2)
    /\ pc = "done" => /\ result # None
                      /\ result[1] # UnexpectedError("RecursionError")

\* Whether a token is an integer: digits after an optional '-'.
IsIntegerToken(tok) ==
    \/ isdigit(tok)
    \/ tok # <<>> /\ Head(tok) = "-" /\ isdigit(Tail(tok))

\* A line with only its integer tokens of magnitude <= max_vars, in their
\* order, and a terminating 0.
RepairedLine(line, max_vars) ==
    LET kept == SelectSeq(split(line),
                          LAMBDA tok : IsIntegerToken(tok) /\ abs(int(tok)) <= max_vars)
    IN  Join(<<SP>>, IF kept # <<>> /\ kept[Len(kept)] # <<"0">>
                     THEN Append(kept, <<"0">>)
                     ELSE kept)

\* C4: when the list of failures holds a VariableOutOfRange failure for a
\* line of the text, get_fixed_content returns a text, and when it is the
\* only failure that line of the text returned holds only the integer
\* tokens of magnitude <= max_vars, in order, with a terminating 0.
C4_OutOfRangeIsRepaired ==
    pc = "done"
    => \A k \in 1..Len(failures) :
           (/\ failures[k].kind = "VariableOutOfRangeFailure"
            /\ failures[k].line # None
            /\ failures[k].line[1] \in 1..Len(splitlines(content, FALSE)))
           => /\ result # Some(None)
              /\ Len(failures) = 1
                 => fixer[1].lines[failures[k].line[1]]
                    = RepairedLine(splitlines(content, FALSE)[failures[k].line[1]],
                                   parsed_data[1].header.num_vars)

NoRepairKinds == {"ClauseCountMismatchFailure", "TautologyFailure", "EmptyFileFailure"}

\* C6: get_fixed_content returns None and leaves the line buffer as it was
\* built when the list of failures is empty or holds only
\* ClauseCountMismatch, Tautology and EmptyFile failures.
C6_NoRepairReturnsNone ==
    (/\ pc = "done"
     /\ \A k \in 1..Len(failures) : failures[k].kind \in NoRepairKinds)
    => /\ result = Some(None)
       /\ fixer[1].lines = splitlines(content, FALSE)

\* A Fixer of a two-line text, given a ClauseCountMismatch and a Tautology
\* failure, has returned None.
C6_Witness ==
    /\ pc = "done"
    /\ Len(failures) = 2
    /\ failures[1].kind = "ClauseCountMismatchFailure"
    /\ failures[2].kind = "TautologyFailure"
    /\ Len(fixer[1].lines) = 2
    /\ result = Some(None)

\* out is line without its trailing whitespace.
IsRightStripped(out, line) ==
    \E n \in 0..Len(line) :
        /\ out = SubSeq(line, 1, n)
        /\ n = 0 \/ ~IsSpace(line[n])
        /\ \A k \in (n + 1)..Len(line) : IsSpace(line[k])

\* C7: the turn of the Fixer's loop on a ParseFailure whose message holds
\* 'terminator' and whose line L is a line of the buffer makes line L its
\* old content without trailing whitespace followed by " 0", and leaves
\* every other line and the number of lines as they were.
C7_MissingTerminatorRepair ==
    [][(/\ pc = "apply_fixes"
        /\ next_failure' = next_failure + 1
        /\ failures[next_failure].kind = "ParseFailure"
        /\ "clause terminator '0'" \in failures[next_failure].message.expected
        /\ failures[next_failure].line # None
        /\ failures[next_failure].line[1] \in 1..Len(fixer[1].lines))
       => /\ Len(fixer'[1].lines) = Len(fixer[1].lines)
          /\ \A k \in 1..Len(fixer[1].lines) :
                 IF k = failures[next_failure].line[1]
                 THEN \E out \in {SubSeq(fixer[1].lines[k], 1, n) :
                                      n \in 0..Len(fixer[1].lines[k])} :
                          /\ IsRightStripped(out, fixer[1].lines[k])
                          /\ fixer'[1].lines[k] = out \o <<SP, "0">>
                 ELSE fixer'[1].lines[k] = fixer[1].lines[k]]_vars

\* The line "1 2 -3 " with a trailing space, first of two lines, has become
\* "1 2 -3 0" by the repair of a missing terminator on line 1.
C7_Witness ==
    /\ pc = "apply_fixes"
    /\ next_failure = 2
    /\ failures = <<TerminatorExpected(1)>>
    /\ Len(splitlines(content, FALSE)) = 2
    /\ splitlines(content, FALSE)[1] = <<"1", SP, "2", SP, "-", "3", SP>>
    /\ Len(fixer[1].lines) = 2
    /\ fixer[1].lines[1] = <<"1", SP, "2", SP, "-", "3", SP, "0">>
    /\ fixer[1].lines[2] = splitlines(content, FALSE)[2]

\* The numbers of the lines of a buffer that the header pattern matches.
HeaderLinesOf(lines) == {k \in 1..Len(lines) : header_pattern_match(lines[k])}

\* The turn of the Fixer's loop on a DuplicateHeader failure: every header
\* line after the first is the old line after "c ", every other line is
\* unchanged; the ParsedFile and max_vars are those of the parse of the
\* rewritten buffer when it parses and the earlier ones when it does not.
DuplicateHeaderRepair(old, new) ==
    /\ Len(new.lines) = Len(old.lines)
    /\ \A k \in 1..Len(old.lines) :
           new.lines[k] = IF k \in HeaderLinesOf(old.lines) /\ k # Min(HeaderLinesOf(old.lines))
                          THEN <<"c", SP>> \o old.lines[k]
                          ELSE old.lines[k]
    /\ LET r == cnf_xor_file_parser(Join(<<NL>>, new.lines))
       IN  IF r.ok
           THEN /\ new.parsed_data = r.data
                /\ new.parsed_data.original_content = Some(Join(<<NL>>, new.lines))
                /\ new.max_vars = r.data.header.num_vars
           ELSE /\ new.parsed_data = old.parsed_data
                /\ new.max_vars = old.max_vars

\* The turn of the Fixer's loop on an InvalidLiteral failure for a line of
\* the buffer none of whose tokens makes int() raise: the line keeps its
\* integer tokens of magnitude <= the Fixer's max_vars at that turn.
LiteralRepairUsesMaxVars(old, new, failure) ==
    (/\ failure.kind = "InvalidLiteralFailure"
     /\ failure.line # None
     /\ failure.line[1] \in 1..Len(old.lines)
     /\ \A tok \in {split(old.lines[failure.line[1]])[k] :
                       k \in 1..Len(split(old.lines[failure.line[1]]))} :
            isdigit(lstrip_dash(tok)) => IsIntegerToken(tok))
    => new.lines[failure.line[1]] = RepairedLine(old.lines[failure.line[1]], old.max_vars)

\* C8: after the turn of the Fixer's loop on a DuplicateHeader failure, the
\* buffer holding a header line as it does whenever the failure is true of
\* it, exactly one line matches the header pattern, the first one,
\* unchanged, and every later header line is the old line after "c "; the
\* ParsedFile and max_vars are those of the re-parse (original_content the
\* rewritten text) when the rewritten buffer parses and the earlier ones
\* when it does not; a later literal repair filters by the max_vars then
\* held.
C8_DuplicateHeaderRepair ==
    [][(/\ pc = "apply_fixes"
        /\ next_failure' = next_failure + 1)
       => /\ failures[next_failure].kind = "DuplicateHeaderFailure"
             => /\ DuplicateHeaderRepair(fixer[1], fixer'[1])
                /\ HeaderLinesOf(fixer[1].lines) # {}
                   => /\ Cardinality(HeaderLinesOf(fixer'[1].lines)) = 1
                      /\ HeaderLinesOf(fixer'[1].lines)
                         = {Min(HeaderLinesOf(fixer[1].lines))}
          /\ LiteralRepairUsesMaxVars(fixer[1], fixer'[1], failures[next_failure])]_vars

\* A Fixer built with max_vars 1 on the lines "p cnf 3 1", "p cnf 1 0" has
\* commented out line 2, re-parsed, and holds max_vars 3 and the rewritten
\* text as original_content.
C8_Witness ==
    /\ pc = "apply_fixes"
    /\ next_failure = 2
    /\ Len(failures) = 1
    /\ failures[1].kind = "DuplicateHeaderFailure"
    /\ parsed_data[1].header.num_vars = 1
    /\ splitlines(content, FALSE) = <<HeaderLine(3, 1), HeaderLine(1, 0)>>
    /\ fixer[1].lines = <<HeaderLine(3, 1), <<"c", SP>> \o HeaderLine(1, 0)>>
    /\ fixer[1].max_vars = 3
    /\ fixer[1].parsed_data.header = Header(3, 1)
    /\ fixer[1].parsed_data.original_content = Some(Join(<<NL>>, fixer[1].lines))

\* text with junk_text put at offset at.
Insert(text, at, junk_text) ==
    SubSeq(text, 1, at) \o junk_text \o SubSeq(text, at + 1, Len(text))

\* The offsets after the tokens of the header line of a text that starts
\* with one: after 'p', after 'cnf', after the first integer, after the
\* second.
TokenGaps(text) ==
    UNION {IF StartsAt(text, 0, HeaderLine(h.num_vars, h.num_clauses))
           THEN {1, 5, 6 + Len(str(h.num_vars)),
                 Len(HeaderLine(h.num_vars, h.num_clauses))}
           ELSE {} : h \in InputHeaders}

\* Whitespace, and a comment line.
JunkTexts == {<<SP>>, <<TAB>>, <<NL>>, <<NL, "c", SP, "x", NL>>}

\* C9: a text that parses still parses, to the same header and the same
\* clauses, with whitespace or a comment line put between two adjacent
\* tokens.
C9_JunkIsInsignificant ==
    pc = "validation_checks"
    => \A at \in TokenGaps(content), junk_text \in JunkTexts :
           LET r == cnf_xor_file_parser(Insert(content, at, junk_text))
           IN  /\ r.ok
               /\ r.data.header = parsed_data[1].header
               /\ r.data.clauses = parsed_data[1].clauses

\* The places <<clause, literal>> of the literals that are 0 or whose
\* magnitude exceeds num_vars.
BadLiterals(parsed) ==
    UNION {{<<c, l>> : l \in {l \in 1..Len(parsed.clauses[c].literals) :
                                \/ parsed.clauses[c].literals[l] = 0
                                \/ abs(parsed.clauses[c].literals[l]) > parsed.header.num_vars}}
           : c \in 1..Len(parsed.clauses)}

\* The first place of a set, clauses in order and literals in order.
FirstPlace(S) ==
    CHOOSE x \in S : \A y \in S : x[1] < y[1] \/ (x[1] = y[1] /\ x[2] <= y[2])

\* check_literals_validity fails exactly on the first literal that is 0
\* (InvalidLiteral) or whose magnitude exceeds num_vars (VariableOutOfRange),
\* citing its 1-based clause and literal numbers, and succeeds iff there is
\* none.
FailsOnFirstBadLiteral(parsed, r) ==
    IF BadLiterals(parsed) = {} THEN r.ok
    ELSE LET first == FirstPlace(BadLiterals(parsed))
         IN  /\ ~r.ok
             /\ r.failure.kind
                = IF parsed.clauses[first[1]].literals[first[2]] = 0
                  THEN "InvalidLiteralFailure"
                  ELSE "VariableOutOfRangeFailure"
             /\ r.failure.message.clause = first[1]
             /\ r.failure.message.literal = first[2]

\* The numbers of the clauses that have a literal.
NonEmptyClauses(parsed) ==
    {c \in 1..Len(parsed.clauses) : parsed.clauses[c].literals # <<>>}

\* C10 as written: check_literals_validity fails on the first bad literal,
\* and with num_vars = 0 and a non-empty clause the result is
\* VariableOutOfRange for the first literal of the first non-empty clause.
C10_ZeroVarsAlwaysOutOfRange ==
    pc = "decide"
    => /\ FailsOnFirstBadLiteral(parsed_data[1], validation_checks[2])
       /\ (parsed_data[1].header.num_vars = 0 /\ NonEmptyClauses(parsed_data[1]) # {})
          => /\ ~validation_checks[2].ok
             /\ validation_checks[2].failure.kind = "VariableOutOfRangeFailure"
             /\ validation_checks[2].failure.message.clause
                = Min(NonEmptyClauses(parsed_data[1]))
             /\ validation_checks[2].failure.message.literal = 1

\* C10, amended: check_literals_validity fails on the first bad literal, and
\* with num_vars = 0 and a non-empty clause the result is a failure for the
\* first literal of the first non-empty clause: InvalidLiteral when that
\* literal is 0, VariableOutOfRange otherwise.
C10_FirstBadLiteral ==
    pc = "decide"
    => /\ FailsOnFirstBadLiteral(parsed_data[1], validation_checks[2])
       /\ (parsed_data[1].header.num_vars = 0 /\ NonEmptyClauses(parsed_data[1]) # {})
          => /\ ~validation_checks[2].ok
             /\ validation_checks[2].failure.kind
                = IF parsed_data[1].clauses[Min(NonEmptyClauses(parsed_data[1]))].literals[1] = 0
                  THEN "InvalidLiteralFailure"
                  ELSE "VariableOutOfRangeFailure"
             /\ validation_checks[2].failure.message.clause
                = Min(NonEmptyClauses(parsed_data[1]))
             /\ validation_checks[2].failure.message.literal = 1

\* With num_vars = 0, an empty clause and then the XOR clause of -1 and 3,
\* the check has failed with VariableOutOfRange on clause 2, literal 1.
C10_Witness ==
    /\ pc = "decide"
    /\ parsed_data[1].header.num_vars = 0
    /\ Len(parsed_data[1].clauses) = 2
    /\ parsed_data[1].clauses[1].literals = <<>>
    /\ parsed_data[1].clauses[2] = XorClause(<<-1, 3>>)
    /\ ~validation_checks[2].ok
    /\ validation_checks[2].failure.kind = "VariableOutOfRangeFailure"
    /\ validation_checks[2].failure.message.clause = 2
    /\ validation_checks[2].failure.message.literal = 1

\* The places <<clause, literal>> of the literals of CNF clauses that negate
\* a literal standing to their left in the same clause.
TautologyPlaces(parsed) ==
    UNION {{<<c, j>> : j \in {j \in 1..Len(parsed.clauses[c].literals) :
                                \E i \in 1..(j - 1) :
                                    parsed.clauses[c].literals[i]
                                    = 0 - parsed.clauses[c].literals[j]}}
           : c \in {c \in 1..Len(parsed.clauses) : parsed.clauses[c].type = "CnfClause"}}

\* C11: check_cnf_tautologies fails iff some CNF clause holds a literal and,
\* to its left, the negation of it; the failure cites the lowest-numbered
\* such clause, counted from 1 over all clauses, and the variable of the
\* first literal of it whose negation stands to its left.  XOR clauses are
\* never cited.
C11_TautologyReport ==
    pc = "decide"
    => IF TautologyPlaces(parsed_data[1]) = {} THEN validation_checks[3].ok
       ELSE LET first == FirstPlace(TautologyPlaces(parsed_data[1]))
            IN  /\ ~validation_checks[3].ok
                /\ validation_checks[3].failure
                   = ValidationFailure("TautologyFailure",
                         [clause |-> first[1],
                          variable |-> abs(parsed_data[1].clauses[first[1]].literals[first[2]])],
                         None, None)

\* After the XOR clause of 1 and -1, the CNF clause 1 2 -2 -1 has failed
\* the check as clause 2, on variable 2.
C11_Witness ==
    /\ pc = "decide"
    /\ parsed_data[1].clauses = <<XorClause(<<1, -1>>), CnfClause(<<1, 2, -2, -1>>)>>
    /\ ~validation_checks[3].ok
    /\ validation_checks[3].failure.message = [clause |-> 2, variable |-> 2]

\* The file whose only clause is the XOR clause of 1 and -1 has passed the
\* check.
C11_XorWitness ==
    /\ pc = "decide"
    /\ parsed_data[1].clauses = <<XorClause(<<1, -1>>)>>
    /\ validation_checks[3].ok

\* The kinds of the failures of a list, in order.
KindsOf(fails) == [k \in DOMAIN fails |-> fails[k].kind]

\* The kinds a list of the three check results has failed with, in order.
FailedKinds(checks) ==
    (IF checks[1].ok THEN <<>> ELSE <<checks[1].failure.kind>>)
    \o (IF checks[2].ok THEN <<>> ELSE <<checks[2].failure.kind>>)
    \o (IF checks[3].ok THEN <<>> ELSE <<checks[3].failure.kind>>)

\* C12: once the text is parsed, all three checks are evaluated, each on the
\* ParsedFile and whatever the others returned; the failures collected are
\* those of the failing checks, in the order clause-count, literal-validity,
\* tautology; the clause-count check fails iff the number of clauses differs
\* from header.num_clauses; the Fixer is handed the whole list; and with
\* fixing disabled, or when the Fixer returns nothing, the result is the
\* first failure collected.
C12_AllChecksCollected ==
    pc \in {"decide", "done"}
    => /\ Len(validation_checks) = 3
       /\ validation_checks[1].ok
          <=> Len(parsed_data[1].clauses) = parsed_data[1].header.num_clauses
       /\ ~validation_checks[1].ok
          => validation_checks[1].failure.kind = "ClauseCountMismatchFailure"
       /\ validation_checks[2] = check_literals_validity(parsed_data[1])
       /\ validation_checks[3] = check_cnf_tautologies(parsed_data[1])
       /\ Len(failures) = Len(FailedKinds(validation_checks))
       /\ KindsOf(failures) = FailedKinds(validation_checks)
       /\ \A k \in DOMAIN failures :
              \E c \in DOMAIN validation_checks :
                  ~validation_checks[c].ok /\ validation_checks[c].failure = failures[k]
       /\ fixer # None => fix /\ fixer[1].failures = failures
       /\ (pc = "done" /\ failures # <<>> /\ fix) => fixer # None
       /\ (pc = "done" /\ failures # <<>>
           /\ (~fix \/ get_fixed_content(Fixer(parsed_data[1], failures)).returned = None))
          => result = Some(Err(failures[1]))

\* With fixing enabled, a file that declares no clause and holds the CNF
\* clause 1 -1 has failed clause-count and tautology; the Fixer was handed
\* both failures, returned nothing, and the result is the
\* ClauseCountMismatch.
C12_Witness ==
    /\ pc = "done"
    /\ fix
    /\ parsed_data[1].header = Header(1, 0)
    /\ parsed_data[1].clauses = <<CnfClause(<<1, -1>>)>>
    /\ KindsOf(failures) = <<"ClauseCountMismatchFailure", "TautologyFailure">>
    /\ fixer # None
    /\ fixer[1].failures = failures
    /\ result = Some(Err(failures[1]))
    /\ result[1].failure.kind = "ClauseCountMismatchFailure"

\* C13: every ParsedFile the parser returns has header.num_vars >= 0 and
\* header.num_clauses >= 0.
C13_HeaderCountsNonNegative ==
    parsed_data # None
    => /\ parsed_data[1].header.num_vars >= 0
       /\ parsed_data[1].header.num_clauses >= 0

\* The number of newline characters among the first i characters of text.
NewlinesBefore(text, i) == Cardinality({k \in 1..i : text[k] = NL})

\* The offset of the first character of the line that offset i lies on: the
\* offset after the last newline character before i.
LineStart(text, i) ==
    IF \E k \in 1..i : text[k] = NL
    THEN CHOOSE k \in 1..i : text[k] = NL /\ \A j \in (k + 1)..i : text[j] # NL
    ELSE 0

\* C14: the ParseFailure of a text that does not parse carries the location
\* of the offset the parser stopped at: line = 1 + the number of newline
\* characters before the offset, column = the offset - the offset of the
\* first character of that line + 1; the line is a line of the text.
C14_LocationOfOffset ==
    (pc = "done" /\ result[1].status = "Err" /\ result[1].failure.kind = "ParseFailure")
    => LET index == cnf_xor_file_parser(content).index
       IN  /\ index \in 0..Len(content)
           /\ result[1].failure.line = Some(1 + NewlinesBefore(content, index))
           /\ result[1].failure.col = Some(index - LineStart(content, index) + 1)
           /\ result[1].failure.line[1] \in 1..Len(splitlines(content, FALSE))

\* C15: whenever get_fixed_content, on a text that is not empty, returns
\* text, a repair has changed a line of the buffer: the text returned
\* differs from the lines of the original text joined by newlines.
C15_ReturnedTextIsRepaired ==
    (pc = "done" /\ content # <<>> /\ result # None /\ result[1] # None)
    => result[1][1] # Join(<<NL>>, splitlines(content, FALSE))

\* The line begins, after leading whitespace, with the marker of an XOR
\* clause.
IsXorLine(line) == split(strip(line)) # <<>> /\ split(strip(line))[1] = <<"x">>

\* C16: a turn of the loop of _apply_fixes that repairs the line of an
\* InvalidLiteral failure keeps the kind of the line: a line that begins with
\* the marker 'x' of an XOR clause still begins with it, and a header line is
\* still a header line.
C16_LiteralRepairKeepsLineKind ==
    [][(/\ pc = "apply_fixes"
        /\ next_failure <= Len(fixer[1].failures)
        /\ next_failure' = next_failure + 1
        /\ fixer[1].failures[next_failure].kind = "InvalidLiteralFailure"
        /\ LineIndexOk(fixer[1], fixer[1].failures[next_failure])
        /\ ~fixer'[1].raised)
       => LET l == fixer[1].failures[next_failure].line[1]
          IN  /\ IsXorLine(fixer[1].lines[l]) => IsXorLine(fixer'[1].lines[l])
              /\ header_pattern_match(fixer[1].lines[l])
                 => header_pattern_match(fixer'[1].lines[l])]_vars

=============================================================================
